---- MODULE Spec2Model ----
(***************************************************************************)
(* A model of tedopa/tmps.py: the tMPS time evolution driver (evolve,      *)
(* _time_evolution, _times_to_steps), the normalizer/compressor            *)
(* (_compress, _normalize) and the Trotter propagator builder              *)
(* (_trotter_slice, _get_h_list, _get_u_list, _u_list_to_mpo).             *)
(*                                                                         *)
(* Numbers.  Requested times are integer multiples of one time unit, and   *)
(* every derived quantity (tau, tau * k, tau ** 3, fidelity products) is   *)
(* an exact fraction [n, d] in lowest terms with d > 0.  Python's round()  *)
(* is modelled as what it does: round to nearest, ties to even.            *)
(*                                                                         *)
(* Objects.  mpnum arrays are objects on a heap, named by identifiers, so  *)
(* that rebinding a local name (state = state / trace) and mutating an     *)
(* object in place (state.compress(...)) are different things, as they are *)
(* in Python.  Identifier 0 is the array the caller passed to evolve.      *)
(***************************************************************************)
EXTENDS Integers, Sequences, FiniteSets, TLC

\* ------------------------------------------------------------------ bounds
\* Largest requested time, in time units (the smallest is -1).
MaxTime == 3
\* Largest number of requested times.
MaxTimes == 2
\* Largest num_trotter_slices.
MaxSlices == 2
\* Largest number of sites of the input state (the smallest is 2).
MaxSites == 4

\* ------------------------------------------------------- exact arithmetic
Abs(x) == IF x < 0 THEN -x ELSE x

RECURSIVE Gcd(_, _)
Gcd(a, b) == IF b = 0 THEN a ELSE Gcd(b, a % b)

\* The fraction a / b (b # 0) in lowest terms with a positive denominator.
Frac(a, b) ==
    LET g == Gcd(Abs(a), Abs(b))
        s == IF b < 0 THEN -1 ELSE 1
    IN  [n |-> (s * a) \div g, d |-> (s * b) \div g]

FracInt(k) == [n |-> k, d |-> 1]
FracAdd(x, y) == Frac(x.n * y.d + y.n * x.d, x.d * y.d)
FracMul(x, y) == Frac(x.n * y.n, x.d * y.d)
FracLeq(x, y) == x.n * y.d <= y.n * x.d
FracLt(x, y) == x.n * y.d < y.n * x.d

\* Python's round(a / b) for b # 0: the nearest integer, a tie going to the
\* even neighbour.
RoundFloor(a, b) ==
    LET p == IF b < 0 THEN -a ELSE a
        q == Abs(b)
    IN  p \div q

RoundHalfEven(a, b) ==
    LET p == IF b < 0 THEN -a ELSE a
        q == Abs(b)
        lo == p \div q
        r == p % q
    IN  IF 2 * r < q THEN lo
        ELSE IF 2 * r > q THEN lo + 1
        ELSE IF lo % 2 = 0 THEN lo ELSE lo + 1

\* ----------------------------------------------------------- Python lists
\* s[i] and s[-1] of a Python list, s[start::2], and "x in s".
At(s, i) == s[i + 1]
Last(s) == s[Len(s)]
Stride2(s, start) ==
    [k \in 1..(IF Len(s) < start THEN 0 ELSE (Len(s) - start + 1) \div 2)
        |-> s[start + 2 * k - 1]]
Range(s) == {s[k] : k \in 1..Len(s)}
SeqsUpTo(S, n) == UNION {[1..k -> S] : k \in 0..n}

RECURSIVE Chain(_)
\* mp.chain: the networks of a list joined end to end.
Chain(nets) == IF nets = <<>> THEN <<>> ELSE Head(nets) \o Chain(Tail(nets))

\* ------------------------------------------------------ propagator builder
\* A Hamiltonian term is [dim |-> local dimension of the matrix].  The dense
\* operator expm(-1j * w * (sum of terms)) is a block
\*   [kind, tau, half, single, adjacent]
\* where tau names the time increment, half says whether w = tau / 2 (else
\* w = tau), and single / adjacent are the positions (from 0) in h_single /
\* h_adjacent of the terms summed in the exponent.
Block(kind, tau, half, single, adjacent) ==
    [kind |-> kind, tau |-> tau, half |-> half,
     single |-> single, adjacent |-> adjacent]

\* list(repeat(h, n))
Repeat(h, n) == [k \in 1..n |-> h]

\* _get_h_list: hs is [kind |-> "pair", single |-> h, adjacent |-> h] or
\* [kind |-> "lists", single |-> <<h, ...>>, adjacent |-> <<h, ...>>].
_get_h_list(hs, num_sites) ==
    IF hs.kind # "lists"
    THEN [err |-> "none",
          h_single |-> Repeat(hs.single, num_sites),
          h_adjacent |-> Repeat(hs.adjacent, num_sites - 1)]
    ELSE IF Len(hs.single) # num_sites \/ Len(hs.adjacent) # num_sites - 1
    THEN [err |-> "ValueError: Number of given Hamiltonians does not match number of sites",
          h_single |-> <<>>, h_adjacent |-> <<>>]
    ELSE [err |-> "none", h_single |-> hs.single, h_adjacent |-> hs.adjacent]

\* The condition of line 168 under which the single-site operator of the last
\* site is appended to u_odd.
AppendLastNever(u_odd, u_even) == FALSE
AppendLast(u_odd, u_even) == Len(u_odd) = Len(u_even)

\* _get_u_list
_get_u_list(h_single, h_adjacent, tau) ==
    LET dims == [k \in 1..Len(h_single) |-> h_single[k].dim]
        \* i in range(0, len(h_single) - 1, 2), as the positions i
        pair_pos == Stride2([k \in 1..(Len(h_single) - 1) |-> k - 1], 0)
        h_2sites == [k \in 1..Len(pair_pos) |-> {pair_pos[k], pair_pos[k] + 1}]
        adj_pos == [k \in 1..Len(h_adjacent) |-> k - 1]
        odd_pos == Stride2(adj_pos, 0)
        even_pos == Stride2(adj_pos, 1)
        u_odd == [k \in 1..Len(odd_pos) |->
                    Block("odd", tau, TRUE, h_2sites[k], {odd_pos[k]})]
        u_even == [k \in 1..Len(even_pos) |->
                    Block("even", tau, FALSE, {}, {even_pos[k]})]
        last == Block("last", tau, TRUE, {Len(h_single) - 1}, {})
    IN  [dims |-> dims,
         u_odd |-> IF AppendLast(u_odd, u_even)
                   THEN Append(u_odd, last) ELSE u_odd,
         u_even |-> u_even]

\* matrix_to_mpo: one local tensor per entry of shape, each carrying the
\* physical dimension of its site and the block it was cut from.
matrix_to_mpo(matrix, shape) ==
    [j \in 1..Len(shape) |-> [dim |-> shape[j][1], block |-> matrix]]

\* mp.eye(1, d): one identity tensor of physical dimension d.
Eye(d) == <<[dim |-> d, block |-> Block("eye", "none", FALSE, {}, {})]>>

\* The condition of line 200 under which the even network gets an identity
\* tensor at its end.
PadEndAlways(u_odd, u_even) == Len(u_odd) >= Len(u_even)
PadEnd(u_odd, u_even) == Len(u_odd) > Len(u_even)

\* _u_list_to_mpo
_u_list_to_mpo(dims, u_odd_in, u_even) ==
    LET strip == Len(dims) % 2 = 1
        u_odd == IF strip THEN SubSeq(u_odd_in, 1, Len(u_odd_in) - 1)
                 ELSE u_odd_in
        odd0 == Chain([k \in 1..Len(u_odd) |->
                    matrix_to_mpo(u_odd[k],
                        <<<<At(dims, 2 * (k - 1)), At(dims, 2 * (k - 1))>>,
                          <<At(dims, 2 * (k - 1) + 1), At(dims, 2 * (k - 1) + 1)>>>>)])
        even0 == Chain([k \in 1..Len(u_even) |->
                    matrix_to_mpo(u_even[k],
                        <<<<At(dims, 2 * (k - 1) + 1), At(dims, 2 * (k - 1) + 1)>>,
                          <<At(dims, 2 * (k - 1) + 2), At(dims, 2 * (k - 1) + 2)>>>>)])
        even1 == Chain(<<Eye(At(dims, 0)), even0>>)
    IN  IF PadEnd(u_odd, u_even)
        THEN [odd |-> odd0, even |-> Chain(<<even1, Eye(Last(dims))>>)]
        ELSE IF Len(u_even) = Len(u_odd)
        THEN [odd |-> Chain(<<odd0, matrix_to_mpo(Last(u_odd_in),
                                        <<<<Last(dims), Last(dims)>>>>)>>),
              even |-> even1]
        ELSE [odd |-> odd0, even |-> even1]

\* mp.dot of operator networks: the product, as the list of its factors in
\* the order they are written, on a new array.
DotU(a, b) == [sites |-> a.sites, factors |-> a.factors \o b.factors, ncompress |-> 0]
Mpo(net) == [sites |-> Len(net), factors |-> <<net>>, ncompress |-> 0]

\* mp.dot(mp.dot(u_odd, u_even), u_odd) of one [odd, even] pair of networks.
SliceOfEvenTwice(m) == DotU(DotU(Mpo(m.odd), Mpo(m.even)), Mpo(m.even))
SliceOf(m) == DotU(DotU(Mpo(m.odd), Mpo(m.even)), Mpo(m.odd))

\* What a failed construction leaves behind: nothing.
NoSlice(err) == [err |-> err, u_lists |-> <<>>, u_mpos |-> <<>>, u |-> Mpo(<<>>)]

\* _trotter_two: [err, u_lists, u].
_trotter_two(hamiltonians, tau, num_sites) ==
    LET h == _get_h_list(hamiltonians, num_sites)
        l == _get_u_list(h.h_single, h.h_adjacent, tau)
        m == _u_list_to_mpo(l.dims, l.u_odd, l.u_even)
    IN  IF h.err # "none" THEN NoSlice(h.err)
        ELSE [err |-> "none", u_lists |-> <<l>>, u_mpos |-> <<m>>, u |-> SliceOf(m)]

\* _trotter_four: the three increments tau / (4 - 4 ** (1 / 3)) (twice) and
\* tau - 4 * tau / (4 - 4 ** (1 / 3)) are named "s1", "s1", "s3".
_trotter_four(hamiltonians, tau, num_sites) ==
    LET taus == <<"s1", "s1", "s3">>
        h == _get_h_list(hamiltonians, num_sites)
        u_lists == [k \in 1..3 |-> _get_u_list(h.h_single, h.h_adjacent, taus[k])]
        u_mpos == [k \in 1..3 |->
                    _u_list_to_mpo(u_lists[k].dims, u_lists[k].u_odd, u_lists[k].u_even)]
        u_parts == [k \in 1..3 |-> SliceOf(u_mpos[k])]
        \* _compress(u, 'mpo') acts on this intermediate array only
        u3 == DotU(DotU(u_parts[1], u_parts[2]), u_parts[3])
    IN  IF h.err # "none" THEN NoSlice(h.err)
        ELSE [err |-> "none", u_lists |-> u_lists, u_mpos |-> u_mpos,
              u |-> DotU(DotU(u3, u_parts[2]), u_parts[1])]

\* _trotter_slice
_trotter_slice(hamiltonians, tau, num_sites, trotter_order) ==
    IF trotter_order = 2 THEN _trotter_two(hamiltonians, tau, num_sites)
    ELSE IF trotter_order = 4 THEN _trotter_four(hamiltonians, tau, num_sites)
    ELSE NoSlice("ValueError: Trotter order is currently not implemented")

\* ------------------------------------------------- normalizer / compressor
\* An array on the heap is [sites, scale, ncompress]: its number of sites,
\* its trace (method 'mpo') or norm (method 'pmps'), and how many times
\* compress() has rewritten its tensors in place.
ScaleVals == {1, 2}
\* The overlaps a compression of the evolving state may return.
FidVals == {Frac(1, 1), Frac(1, 2)}

\* state / mp.trace(state), state / mp.norm(state): a new array.
Divided(o) == [o EXCEPT !.scale = o.scale \div o.scale]

\* _normalize: the quotient is a new array bound to the local name `state`
\* only; the array the caller passed is not written.  Returns the heap and
\* the next free identifier; the function itself returns None.
_normalize(h, nid, st, meth) ==
    IF meth \in {"pmps", "mpo"}
    THEN [heap |-> (nid :> Divided(h[st])) @@ h, nextid |-> nid + 1]
    ELSE [heap |-> h, nextid |-> nid]

\* state.compress(...): rewrites the tensors of the array in place.
CompressInPlace(h, st) == [h EXCEPT ![st].ncompress = @ + 1]

\* _compress
_compress(h, nid, st, meth) == _normalize(CompressInPlace(h, st), nid, st, meth)

\* Arrays no name refers to any more are gone.
Collect(h, roots) == [id \in (DOMAIN h) \cap roots |-> h[id]]

\* ------------------------------------------------------- evolution driver
\* _times_to_steps: [err, times, tau]; times is the caller's list after the
\* call (sorted even when the division fails, converted when it does not).
_times_to_steps(times, nslices) ==
    LET sorted == SortSeq(times, LAMBDA a, b : a < b)
        top == Last(sorted)
    IN  IF top = 0
        THEN [err |-> "ZeroDivisionError", times |-> sorted, tau |-> FracInt(0)]
        ELSE [err |-> "none",
              \* t / tau = t * nslices / top
              times |-> [k \in 1..Len(sorted) |->
                            RoundHalfEven(sorted[k] * nslices, top)],
              tau |-> Frac(top, nslices)]

\* tau ** 3, the Trotter error added per step (line 358).
TrotterIncrementSquare(tau) == FracMul(tau, tau)
TrotterIncrement(tau) == FracMul(tau, FracMul(tau, tau))

\* ------------------------------------------------------------------ state
VARIABLES
    ts_in,                      \* the requested times as the caller wrote them
    ts,                         \* the caller's list object (rewritten in place)
    num_trotter_slices, method, trotter_order, hamiltonians,
    heap, nextid,               \* the arrays; 0 is the caller's state
    pc, err,                    \* position in evolve; the exception raised
    tau, u, u_lists, u_mpos,    \* the slice duration and the propagator
    state, i,                   \* _time_evolution's state and loop index
    times, states, compr_errors, trot_errors,
    accumulated_overlap, accumulated_trotter_error,
    overlaps,                   \* history: what each step's compress returned
    snap_steps                  \* history: steps applied when each entry was taken

inputs == <<ts_in, num_trotter_slices, method, trotter_order, hamiltonians>>
slice == <<tau, u, u_lists, u_mpos>>
trace == <<times, states, compr_errors, trot_errors, snap_steps>>
loop == <<state, i, accumulated_overlap, accumulated_trotter_error, overlaps>>
vars == <<inputs, ts, heap, nextid, pc, err, slice, trace, loop>>

CallerState == 0
TimeVals == -1..MaxTime
SiteVals == 2..MaxSites
H1 == [dim |-> 2]
H2 == [dim |-> 4]
\* [H_i, H_ij], or explicit lists whose lengths are right or one short.
HamiltonianVals(n) ==
    {[kind |-> "pair", single |-> H1, adjacent |-> H2]}
    \cup {[kind |-> "lists", single |-> Repeat(H1, a), adjacent |-> Repeat(H2, b)] :
            a \in {n - 1, n}, b \in {n - 2, n - 1}}

Init ==
    /\ ts_in \in SeqsUpTo(TimeVals, MaxTimes)
    /\ ts = ts_in
    /\ num_trotter_slices \in 1..MaxSlices
    /\ method \in {"mpo", "pmps"}
    /\ trotter_order \in {2, 3, 4}
    /\ \E n \in SiteVals :
        /\ heap = (CallerState :> [sites |-> n, scale |-> 1, ncompress |-> 0])
        /\ hamiltonians \in HamiltonianVals(n)
    /\ nextid = 1
    /\ pc = "start" /\ err = "none"
    /\ tau = FracInt(0) /\ u = Mpo(<<>>) /\ u_lists = <<>> /\ u_mpos = <<>>
    /\ state = CallerState /\ i = 0
    /\ times = <<>> /\ states = <<>> /\ compr_errors = <<>> /\ trot_errors = <<>>
    /\ accumulated_overlap = FracInt(1)
    /\ accumulated_trotter_error = FracInt(0)
    /\ overlaps = <<>> /\ snap_steps = <<>>

Raise(e) == pc' = "raised" /\ err' = e

\* evolve, line 307: _compress(state, method)
CompressInput ==
    /\ pc = "start"
    /\ LET r == _compress(heap, nextid, state, method)
       IN  /\ heap' = Collect(r.heap, {CallerState})
           /\ nextid' = r.nextid
    /\ pc' = "check"
    /\ UNCHANGED <<inputs, ts, err, slice, trace, loop>>

\* evolve, lines 308-309
RaiseTooFewSites ==
    /\ pc = "check"
    /\ heap[state].sites < 3
    /\ Raise("ValueError: State has too few sites")
    /\ UNCHANGED <<inputs, ts, heap, nextid, slice, trace, loop>>

AllZero(l) == \A k \in 1..Len(l) : l[k] = 0

\* evolve, lines 310-312
RaiseNoEvolution ==
    /\ pc = "check"
    /\ heap[state].sites >= 3
    /\ AllZero(ts)
    /\ Raise("ValueError: No time evolution requested by the user")
    /\ UNCHANGED <<inputs, ts, heap, nextid, slice, trace, loop>>

\* evolve, line 313, when the division by tau fails in _times_to_steps
RaiseZeroDivision ==
    /\ pc = "check"
    /\ heap[state].sites >= 3
    /\ ~AllZero(ts)
    /\ LET r == _times_to_steps(ts, num_trotter_slices)
       IN  /\ r.err # "none"
           /\ ts' = r.times
           /\ Raise(r.err)
    /\ UNCHANGED <<inputs, heap, nextid, slice, trace, loop>>

\* evolve, line 313
TimesToSteps ==
    /\ pc = "check"
    /\ heap[state].sites >= 3
    /\ ~AllZero(ts)
    /\ LET r == _times_to_steps(ts, num_trotter_slices)
       IN  /\ r.err = "none"
           /\ ts' = r.times
           /\ tau' = r.tau
    /\ pc' = "slice"
    /\ UNCHANGED <<inputs, heap, nextid, err, u, u_lists, u_mpos, trace, loop>>

\* evolve, lines 314-315, when _trotter_slice raises
RaiseTrotterSlice ==
    /\ pc = "slice"
    /\ LET r == _trotter_slice(hamiltonians, "tau", heap[state].sites, trotter_order)
       IN  /\ r.err # "none"
           /\ Raise(r.err)
    /\ UNCHANGED <<inputs, ts, heap, nextid, slice, trace, loop>>

\* evolve, lines 314-316: the propagator, then _compress(u, method)
TrotterSlice ==
    /\ pc = "slice"
    /\ LET r == _trotter_slice(hamiltonians, "tau", heap[state].sites, trotter_order)
       IN  /\ r.err = "none"
           /\ u' = [r.u EXCEPT !.ncompress = @ + 1]
           /\ u_lists' = r.u_lists
           /\ u_mpos' = r.u_mpos
    /\ pc' = "evolve"
    /\ UNCHANGED <<inputs, ts, heap, nextid, err, tau, trace, loop>>

\* _time_evolution, lines 344-351: the entries for a requested time 0
StartEvolution ==
    /\ pc = "evolve"
    /\ LET zero == At(ts, 0) = 0
       IN  /\ times' = IF zero THEN <<FracInt(0)>> ELSE <<>>
           /\ states' = IF zero THEN <<state>> ELSE <<>>
           /\ compr_errors' = IF zero THEN <<FracInt(0)>> ELSE <<>>
           /\ trot_errors' = IF zero THEN <<FracInt(0)>> ELSE <<>>
           /\ snap_steps' = IF zero THEN <<0>> ELSE <<>>
    /\ accumulated_overlap' = FracInt(1)
    /\ accumulated_trotter_error' = FracInt(0)
    /\ i' = 0
    /\ pc' = "loop"
    /\ UNCHANGED <<inputs, ts, heap, nextid, err, slice, state, overlaps>>

\* mp.dot(u, state), mp.dot(state, u_dagger): a new array `nid` of the same
\* chain, whose trace or norm is whatever the contraction gives.
Dot(h, nid, st, scale) ==
    (nid :> [sites |-> h[st].sites, scale |-> scale, ncompress |-> 0]) @@ h

\* _time_evolution, lines 352-363: one pass of the loop
LoopStep ==
    /\ pc = "loop"
    /\ i < Last(ts)
    /\ \E s1, s2 \in ScaleVals, f \in FidVals :
        LET h1 == Dot(heap, nextid, state, s1)
            st1 == nextid
            h2 == IF method = "mpo" THEN Dot(h1, nextid + 1, st1, s2) ELSE h1
            st2 == IF method = "mpo" THEN nextid + 1 ELSE st1
            n == _normalize(h2, st2 + 1, st2, method)
            h3 == CompressInPlace(n.heap, st2)
            hit == (i + 1) \in Range(ts)
        IN  /\ state' = st2
            /\ nextid' = n.nextid
            /\ accumulated_overlap' = FracMul(accumulated_overlap, f)
            /\ overlaps' = Append(overlaps, f)
            /\ accumulated_trotter_error' =
                    FracAdd(accumulated_trotter_error, TrotterIncrement(tau))
            /\ times' = IF hit THEN Append(times, FracMul(tau, FracInt(i + 1)))
                        ELSE times
            /\ states' = IF hit THEN Append(states, st2) ELSE states
            /\ compr_errors' = IF hit THEN Append(compr_errors, accumulated_overlap')
                               ELSE compr_errors
            /\ trot_errors' = IF hit
                              THEN Append(trot_errors, accumulated_trotter_error')
                              ELSE trot_errors
            /\ snap_steps' = IF hit THEN Append(snap_steps, Len(overlaps'))
                             ELSE snap_steps
            /\ heap' = Collect(h3, {CallerState, st2} \cup Range(states'))
    /\ i' = i + 1
    /\ UNCHANGED <<inputs, ts, pc, err, slice>>

\* _time_evolution, line 364
Return ==
    /\ pc = "loop"
    /\ i >= Last(ts)
    /\ pc' = "done"
    /\ UNCHANGED <<inputs, ts, heap, nextid, err, slice, trace, loop>>

Next ==
    \/ CompressInput
    \/ RaiseTooFewSites
    \/ RaiseNoEvolution
    \/ RaiseZeroDivision
    \/ TimesToSteps
    \/ RaiseTrotterSlice
    \/ TrotterSlice
    \/ StartEvolution
    \/ LoopStep
    \/ Return

Spec == Init /\ [][Next]_vars

\* ----------------------------------------------------------------- claims
NumSites == heap[CallerState].sites
\* The call is valid: no requested time is negative and one is nonzero.
ValidRequest ==
    /\ \A k \in 1..Len(ts_in) : ts_in[k] >= 0
    /\ \E k \in 1..Len(ts_in) : ts_in[k] # 0
\* _times_to_steps has been called (line 313 was reached).
Converted ==
    \/ pc \in {"slice", "evolve", "loop", "done"}
    \/ pc = "raised" /\ err \notin {"ValueError: State has too few sites",
                                    "ValueError: No time evolution requested by the user"}
\* _times_to_steps has returned.
Stepped == Converted /\ err # "ZeroDivisionError"
ConfigError ==
    pc = "raised" /\ err \in {
        "ValueError: State has too few sites",
        "ValueError: No time evolution requested by the user",
        "ValueError: Number of given Hamiltonians does not match number of sites",
        "ValueError: Trotter order is currently not implemented"}
Increasing(q) == \A k \in 1..(Len(q) - 1) : FracLt(q[k], q[k + 1])
NonDecreasing(q) == \A k \in 1..(Len(q) - 1) : FracLeq(q[k], q[k + 1])
Largest(q) == CHOOSE x \in Range(q) : \A y \in Range(q) : y <= x
RECURSIVE Product(_)
Product(q) == IF q = <<>> THEN FracInt(1) ELSE FracMul(Head(q), Product(Tail(q)))

\* C1: a valid call that returns gives four sequences of one length, that
\* length is the number of requested times (also when two of them are equal
\* or round to the same step), and the recorded times increase.
C1_OneEntryPerRequestedTime ==
    (pc = "done" /\ ValidRequest) =>
        /\ Len(states) = Len(times)
        /\ Len(compr_errors) = Len(times)
        /\ Len(trot_errors) = Len(times)
        /\ Len(times) = Len(ts_in)
        /\ Increasing(times)

\* C2: when evolve raises a configuration error, no propagator has been
\* constructed, the caller's state has not been compressed or otherwise
\* written, and the caller's list of times is as the caller wrote it.
C2_ConfigErrorBeforeAnyMutation ==
    ConfigError =>
        /\ u_lists = <<>> /\ u_mpos = <<>>
        /\ heap[CallerState] = [sites |-> NumSites, scale |-> 1, ncompress |-> 0]
        /\ ts = ts_in

\* step is an integer nearest to t / tau, where tau = top / nslices, top > 0.
Nearest(step, t, top, nslices) == 2 * Abs(step * top - t * nslices) <= top

\* C3: with a positive largest requested time, _times_to_steps returns
\* tau = max(times) / num_trotter_slices and leaves the list sorted
\* ascending, each requested time replaced by an integer nearest to t / tau;
\* the largest entry is num_trotter_slices, and a call that returns has
\* applied the propagator num_trotter_slices times.
C3_TimesToSteps ==
    (Stepped /\ Largest(ts_in) > 0) =>
        /\ tau = Frac(Largest(ts_in), num_trotter_slices)
        /\ Len(ts) = Len(ts_in)
        /\ \A k \in 1..(Len(ts) - 1) : ts[k] <= ts[k + 1]
        /\ \E p \in [1..Len(ts) -> 1..Len(ts)] :
            /\ \A j, k \in 1..Len(ts) : p[j] = p[k] => j = k
            /\ \A k \in 1..Len(ts) :
                Nearest(ts[k], ts_in[p[k]], Largest(ts_in), num_trotter_slices)
        /\ Last(ts) = num_trotter_slices
        /\ Largest(ts) = num_trotter_slices
        /\ pc = "done" => Len(overlaps) = num_trotter_slices

C3_Witness ==
    /\ pc = "done"
    /\ ts_in = <<3, 2>>
    /\ num_trotter_slices = 1
    /\ ts = <<1, 1>>
    /\ Len(overlaps) = 1

\* C4: once evolve has reached the time-to-step conversion, every requested
\* time is non-negative and one is nonzero, tau is positive and every step
\* is non-negative: a request with a negative time never gets there.
C4_NoNegativeTimeIsConverted ==
    Converted =>
        /\ ValidRequest
        /\ err # "ZeroDivisionError"
        /\ tau.n > 0
        /\ \A k \in 1..Len(ts) : ts[k] >= 0

\* C5: every state recorded in the trace has trace 1 (method 'mpo') or
\* norm 1 (method 'pmps').
C5_RecordedStatesNormalized ==
    \A k \in 1..Len(states) : heap[states[k]].scale = 1

\* C6: every recorded compression fidelity is the product of the overlaps
\* the per-step compressions returned up to that entry (1 for the entry of
\* t = 0) and lies in (0, 1].
C6_FidelityIsRunningProduct ==
    \A k \in 1..Len(compr_errors) :
        /\ compr_errors[k] = Product(SubSeq(overlaps, 1, snap_steps[k]))
        /\ FracLt(FracInt(0), compr_errors[k])
        /\ FracLeq(compr_errors[k], FracInt(1))

\* C7: the Trotter error recorded for an entry taken after k applied steps
\* is k * tau^3 (0 for the entry of t = 0), for either method and either
\* Trotter order, and the recorded errors never decrease.
C7_TrotterError ==
    /\ \A k \in 1..Len(trot_errors) :
        trot_errors[k] =
            Frac(snap_steps[k] * tau.n * tau.n * tau.n, tau.d * tau.d * tau.d)
    /\ NonDecreasing(trot_errors)

C7_Witness ==
    /\ pc = "done"
    /\ tau = Frac(3, 2)
    /\ snap_steps = <<1, 2>>
    /\ trot_errors = <<Frac(27, 8), Frac(27, 4)>>

\* No two entries of the trace are the same array, and none is the array the
\* caller passed in.
NoSharedSnapshot ==
    /\ \A j, k \in 1..Len(states) : states[j] = states[k] => j = k
    /\ \A k \in 1..Len(states) : states[k] # CallerState
\* A step leaves every array already in the trace as it was.
SnapshotsKept ==
    \A k \in 1..Len(states) :
        states[k] \in DOMAIN heap' /\ heap'[states[k]] = heap[states[k]]

\* C8: every recorded state is an independent copy: no two entries of the
\* trace are the same array, no entry is the array the caller passed in (the
\* entry of t = 0 included), and no later step writes a recorded array.
C8_SnapshotsAreIndependent == []NoSharedSnapshot /\ [][SnapshotsKept]_vars

HasLast(l) == l.u_odd # <<>> /\ Last(l.u_odd).kind = "last"
TwoSiteOdd(l) == Cardinality({k \in 1..Len(l.u_odd) : l.u_odd[k].kind = "odd"})

\* C9 as stated: the single-site operator of the last site is appended to
\* the odd list exactly when the odd and even block counts agree, which for
\* N >= 3 is exactly when the number of sites is even.
C9_ExtraOperatorIffEvenSites ==
    \A k \in 1..Len(u_lists) :
        /\ HasLast(u_lists[k]) <=> TwoSiteOdd(u_lists[k]) = Len(u_lists[k].u_even)
        /\ HasLast(u_lists[k]) <=> NumSites % 2 = 0

\* C9 as amended: the single-site operator of the last site is appended to
\* the odd list exactly when the odd and even block counts agree, which for
\* N >= 3 is exactly when the number of sites is odd.
C9_ExtraOperatorIffOddSites ==
    \A k \in 1..Len(u_lists) :
        /\ HasLast(u_lists[k]) <=> TwoSiteOdd(u_lists[k]) = Len(u_lists[k].u_even)
        /\ HasLast(u_lists[k]) <=> NumSites % 2 = 1

C9_Witness ==
    /\ u_lists # <<>>
    /\ NumSites = 3
    /\ HasLast(u_lists[1])
    /\ TwoSiteOdd(u_lists[1]) = 1 /\ Len(u_lists[1].u_even) = 1

\* The blocks a network is cut from, tensor by tensor.
BlocksOf(net) == [j \in 1..Len(net) |-> net[j].block]
RECURSIVE Spread(_)
\* A two-site block covers two tensors, the single-site block one.
Spread(blocks) ==
    IF blocks = <<>> THEN <<>>
    ELSE (IF Head(blocks).kind = "last" THEN <<Head(blocks)>>
          ELSE <<Head(blocks), Head(blocks)>>) \o Spread(Tail(blocks))
EyeBlock == Block("eye", "none", FALSE, {}, {})

\* C10: for N >= 3 the odd and the even network both have N tensors; the
\* odd network is the two-site odd blocks followed by the single-site block
\* when there is one, the even network is one identity, the two-site even
\* blocks and, only when there are more two-site odd blocks than even
\* blocks, one more identity.
C10_NetworksSpanTheChain ==
    \A k \in 1..Len(u_mpos) :
        /\ Len(u_mpos[k].odd) = NumSites
        /\ Len(u_mpos[k].even) = NumSites
        /\ BlocksOf(u_mpos[k].odd) = Spread(u_lists[k].u_odd)
        /\ BlocksOf(u_mpos[k].even) =
                <<EyeBlock>> \o Spread(u_lists[k].u_even)
                \o (IF TwoSiteOdd(u_lists[k]) > Len(u_lists[k].u_even)
                    THEN <<EyeBlock>> ELSE <<>>)

C10_Witness ==
    /\ Len(u_mpos) = 3
    /\ NumSites = 4
    /\ Len(u_mpos[3].odd) = 4
    /\ Last(u_mpos[3].even).block = EyeBlock
    /\ u_mpos[3].even[2].block.kind = "even"

\* The order-2 slices the propagator is the product of: its factors, three
\* networks (odd, even, odd) at a time.
SlicesOf(prop) ==
    [k \in 1..(Len(prop.factors) \div 3) |-> SubSeq(prop.factors, 3 * k - 2, 3 * k)]
\* The distinct blocks of a network that exponentiate site term p / bond b.
SiteBlocks(net, p) == {net[j].block : j \in {j \in 1..Len(net) : p \in net[j].block.single}}
BondBlocks(net, b) == {net[j].block : j \in {j \in 1..Len(net) : b \in net[j].block.adjacent}}
\* The time weight one tensor carries, in units of tau / 4: a block of weight
\* tau / 2 or tau spread evenly over the one or two tensors it is cut into.
TensorWeight(t) ==
    (IF t.block.half THEN 2 ELSE 4) \div (IF t.block.kind = "last" THEN 1 ELSE 2)
RECURSIVE SumWeights(_, _)
SumWeights(net, js) ==
    IF js = {} THEN 0
    ELSE LET j == CHOOSE x \in js : TRUE
         IN  TensorWeight(net[j]) + SumWeights(net, js \ {j})
\* Total weight of site term p / bond b over the networks of one slice.
SiteWeight(sl, p) ==
    LET w(net) == SumWeights(net, {j \in 1..Len(net) : p \in net[j].block.single})
    IN  w(sl[1]) + w(sl[2]) + w(sl[3])
BondWeight(sl, b) ==
    LET w(net) == SumWeights(net, {j \in 1..Len(net) : b \in net[j].block.adjacent})
    IN  w(sl[1]) + w(sl[2]) + w(sl[3])
\* Every block of the slice is built for one and the same increment.
OneIncrement(sl) ==
    \E t \in {"tau", "s1", "s3"} :
        \A n \in 1..3 : \A j \in 1..Len(sl[n]) :
            sl[n][j].block.kind # "eye" => sl[n][j].block.tau = t

\* C11: in one order-2 slice (odd, even, odd) for N >= 3 sites every
\* Hamiltonian term has total time weight tau: each site operator is in
\* exactly one block of the odd network (weight tau / 2, applied twice) and
\* in no even block, each bond starting at an even site is in exactly one
\* odd block (tau / 2, twice) and no even block, each bond starting at an
\* odd site is in exactly one even block (tau, once) and no odd block.
\* Stated of the propagator as evolve has just built it (it is not written
\* again afterwards).
C11_EveryTermHasWeightTau ==
    pc = "evolve" =>
    \A k \in 1..Len(SlicesOf(u)) :
        LET sl == SlicesOf(u)[k]
        IN  /\ sl[3] = sl[1]
            /\ OneIncrement(sl)
            /\ \A p \in 0..(NumSites - 1) :
                /\ Cardinality(SiteBlocks(sl[1], p)) = 1
                /\ \A b \in SiteBlocks(sl[1], p) : b.half
                /\ SiteBlocks(sl[2], p) = {}
                /\ SiteWeight(sl, p) = 4
            /\ \A b \in 0..(NumSites - 2) :
                /\ Cardinality(BondBlocks(sl[1], b)) = (IF b % 2 = 0 THEN 1 ELSE 0)
                /\ Cardinality(BondBlocks(sl[2], b)) = (IF b % 2 = 0 THEN 0 ELSE 1)
                /\ \A x \in BondBlocks(sl[1], b) : x.half
                /\ \A x \in BondBlocks(sl[2], b) : ~x.half
                /\ BondWeight(sl, b) = 4

C11_Witness ==
    /\ pc = "evolve"
    /\ trotter_order = 2
    /\ NumSites = 3
    /\ Len(SlicesOf(u)) = 1
    /\ SiteBlocks(u.factors[1], 2) = {Block("last", "tau", TRUE, {2}, {})}
    /\ BondBlocks(u.factors[2], 1) = {Block("even", "tau", FALSE, {}, {1})}
    /\ SiteWeight(SlicesOf(u)[1], 2) = 4
    /\ BondWeight(SlicesOf(u)[1], 1) = 4

====
